---- MODULE Spec2Model ----
(***************************************************************************)
(* Model of scripts/install_fonts.py (probe -> download -> distribute) and *)
(* of tests/test_fonts.py (glyph-coverage verifier).                       *)
(*                                                                         *)
(* A file content is a sequence of bytes over {0,1}.  The file system is   *)
(* the three target paths, their ".tmp" siblings and the existence of the  *)
(* parent directory of each target.                                        *)
(***************************************************************************)
EXTENDS Integers, Sequences, FiniteSets, TLC

VARIABLES
    files,        \* [Paths -> FileRec]: the targets and their .tmp siblings
    dirs,         \* [Targets -> BOOLEAN]: parent directory of the target exists
    pc,           \* position of the running main()
    force,        \* args.force
    dryRun,       \* args.dry_run
    payload,      \* font_bytes in main / ensure_targets (an Option)
    i,            \* index of the target the ensure_targets loop is at
    out,          \* lines printed on stdout, in order
    err,          \* lines printed on stderr, in order
    error,        \* the exception main() died of, if any
    response,     \* what the network returned to download_font, if asked
    called,       \* which of probe / fetch / ensure were invoked in this run
    files0,       \* files at the start of the current run
    dirs0,        \* dirs at the start of the current run
    runs,         \* number of runs of main() started so far
    prevClean,    \* the previous run had no flags and returned 0
    vpc,          \* position of tests/test_fonts.main
    cmap,         \* getBestCmap() of the pinned font: set of code points
    configTexts,  \* strings found in the mods' JSON files
    required,     \* load_required_characters() as computed by the verifier
    vi,           \* index of the target the verifier's loop is at
    verr          \* the AssertionError of the verifier, if any

vars == << files, dirs, pc, force, dryRun, payload, i, out, err, error,
           response, called, files0, dirs0, runs, prevClean,
           vpc, cmap, configTexts, required, vi, verr >>

runVars == << pc, force, dryRun, payload, i, out, err, error, response, called >>
verVars == << vpc, cmap, configTexts, required, vi, verr >>

----------------------------------------------------------------------------
(* Bounds and program constants *)

\* number of entries of FONT_TARGETS
NumTargets == 3

\* file contents considered: the byte strings whose digest is at most this
MaxContent == 7

\* the pinned digest: the only accepted font is the byte string <<1, 1>>
FONT_SHA256 == 7

\* how many times main() may be run one after the other (SpecRerun)
MaxRuns == 2

Targets == 1 .. NumTargets
FONT_TARGETS == [t \in Targets |-> t]

\* mutant: the payload is written straight into the target
tmp_path_in_place(t) == t

\* target.with_suffix(target.suffix + ".tmp")
tmp_path(t) == t + NumTargets

Paths == Targets \cup { tmp_path(t) : t \in Targets }

----------------------------------------------------------------------------
(* Bytes, digests *)

RECURSIVE sha256_digest(_)
\* hexdigest of data: an injective code of the byte string (binary numeral
\* with a leading 1), standing for a collision-free hash
sha256_digest(data) ==
    IF data = << >> THEN 1
    ELSE 2 * sha256_digest(SubSeq(data, 1, Len(data) - 1)) + data[Len(data)]

RECURSIVE BytesOf(_)
\* the byte string with digest d (inverse of sha256_digest), used to
\* enumerate the contents
BytesOf(d) == IF d = 1 THEN << >> ELSE Append(BytesOf(d \div 2), d % 2)

Contents == { BytesOf(d) : d \in 1 .. MaxContent }

None == [some |-> FALSE, data |-> << >>]
Some(d) == [some |-> TRUE, data |-> d]

Absent == [exists |-> FALSE, readable |-> FALSE, isdir |-> FALSE, data |-> << >>]
File(d) == [exists |-> TRUE, readable |-> TRUE, isdir |-> FALSE, data |-> d]
\* a file that exists and whose read_bytes() raises OSError (no permission)
Unreadable == [exists |-> TRUE, readable |-> FALSE, isdir |-> FALSE, data |-> << >>]
\* a directory at the path: read_bytes() and os.replace onto it raise OSError
Directory == [exists |-> TRUE, readable |-> FALSE, isdir |-> TRUE, data |-> << >>]

Line(kind, t) == [kind |-> kind, target |-> t]
Warning(kind, t, digest) == [kind |-> kind, target |-> t, digest |-> digest]

NoError == [kind |-> "none", expected |-> 0, got |-> 0]

NetFailure == [ok |-> FALSE, body |-> << >>]
Responses == { NetFailure } \cup { [ok |-> TRUE, body |-> c] : c \in Contents }

----------------------------------------------------------------------------
(* scripts/install_fonts.py *)

\* mutant: a readable copy is taken without comparing its digest
probe_target_unchecked(f) ==
    IF ~f.exists THEN "skip"
    ELSE IF ~f.readable THEN "could not read"
    ELSE "hit"

\* existing_font_bytes: what one iteration of the loop does with a target
probe_target(f) ==
    IF ~f.exists THEN "skip"
    ELSE IF ~f.readable THEN "could not read"
    ELSE IF sha256_digest(f.data) = FONT_SHA256 THEN "hit"
    ELSE "unexpected hash"

\* mutant: the downloaded payload is returned without the checksum test
download_font_unchecked(resp) ==
    IF ~resp.ok
    THEN [payload |-> None,
          error |-> [kind |-> "Failed to download", expected |-> 0, got |-> 0]]
    ELSE [payload |-> Some(resp.body), error |-> NoError]

\* download_font() on the network's answer: the payload or the RuntimeError
download_font(resp) ==
    IF ~resp.ok
    THEN [payload |-> None,
          error |-> [kind |-> "Failed to download", expected |-> 0, got |-> 0]]
    ELSE IF sha256_digest(resp.body) # FONT_SHA256
    THEN [payload |-> None,
          error |-> [kind |-> "does not match expected SHA-256",
                     expected |-> FONT_SHA256,
                     got |-> sha256_digest(resp.body)]]
    ELSE [payload |-> Some(resp.body), error |-> NoError]

\* main: font_bytes = None if args.force else existing_font_bytes()
UsesProbe(frc) == ~frc

\* mutant: --force does not bypass the comparison with the existing copy
ReadsExistingForced(f, frc) == f.exists

\* ensure_targets: the existing copy is read (target.exists() and not force)
ReadsExisting(f, frc) == f.exists /\ ~frc

\* mutant: an existing copy is never recognised as up to date
UpToDateNever(f, frc) == FALSE

\* mutant: any readable existing copy counts as up to date
UpToDateAnyContent(f, frc) == ReadsExisting(f, frc) /\ f.readable

\* ensure_targets: "up to date", the target is skipped
UpToDate(f, frc) ==
    ReadsExisting(f, frc) /\ f.readable /\ sha256_digest(f.data) = FONT_SHA256

\* mutant: the "refreshing" line is never printed
MismatchSilent(f, frc) == FALSE

\* ensure_targets: "checksum mismatch, refreshing"
Mismatch(f, frc) ==
    ReadsExisting(f, frc) /\ f.readable /\ sha256_digest(f.data) # FONT_SHA256

\* ensure_targets: "Warning: could not read"
ReadFails(f, frc) == ReadsExisting(f, frc) /\ ~f.readable

\* mutant: --dry-run is ignored by the distributor
DryRunIgnored(dry) == FALSE

\* ensure_targets: if dry_run: print, continue
DryRunSkips(dry) == dry

\* the positions of a running main(): one per statement with a visible effect
Running == { "start", "probe", "fetch", "fetching", "ensure_call", "mkdir",
             "check", "would", "open_tmp", "write", "replace", "wrote",
             "return" }
Terminal == { "done", "failed", "killed" }

\* ensure_targets: the loop goes on to the next target, or ends
AfterTarget(k) == IF k = NumTargets THEN "return" ELSE "mkdir"

\* main(argv): args = parse_args(argv)
Begin(f, d) ==
    /\ force' = f
    /\ dryRun' = d
    /\ payload' = None
    /\ err' = << >>
    /\ out' = << >>
    /\ error' = NoError
    /\ response' = NetFailure
    /\ called' = [probe |-> FALSE, fetch |-> FALSE, ensure |-> FALSE]
    /\ i' = 1
    /\ pc' = "start"
    /\ files0' = files
    /\ dirs0' = dirs
    /\ prevClean' = (pc = "done" /\ ~force /\ ~dryRun)
    /\ runs' = runs + 1
    /\ UNCHANGED << files, dirs >>

\* the first run of main()
MainStart ==
    /\ pc = "idle"
    /\ vpc = "off"
    /\ \E f \in BOOLEAN, d \in BOOLEAN : Begin(f, d)
    /\ UNCHANGED verVars

\* a further run of main() after the previous one ended
MainAgain ==
    /\ pc \in Terminal
    /\ vpc = "off"
    /\ runs < MaxRuns
    /\ \E f \in BOOLEAN, d \in BOOLEAN : Begin(f, d)
    /\ UNCHANGED verVars

\* main: font_bytes = None if args.force else existing_font_bytes()
CacheLookup ==
    /\ pc = "start"
    /\ IF UsesProbe(force)
       THEN /\ called' = [called EXCEPT !.probe = TRUE]
            /\ pc' = "probe"
       ELSE /\ called' = called
            /\ pc' = "fetch"
    /\ i' = 1
    /\ UNCHANGED << force, dryRun, payload, out, err, error, response >>
    /\ UNCHANGED << files, dirs, files0, dirs0, runs, prevClean >>
    /\ UNCHANGED verVars

\* one iteration of the loop of existing_font_bytes; after the last target
\* the function returns None and main goes on to the download
ProbeStep ==
    /\ pc = "probe"
    /\ LET t == FONT_TARGETS[i]
           f == files[t]
           v == probe_target(f)
       IN  /\ err' = IF v = "could not read"
                     THEN Append(err, Warning(v, t, 0))
                     ELSE IF v = "unexpected hash"
                     THEN Append(err, Warning(v, t, sha256_digest(f.data)))
                     ELSE err
           /\ IF v = "hit"
              THEN payload' = Some(f.data) /\ pc' = "ensure_call" /\ i' = 1
              ELSE /\ payload' = payload
                   /\ IF i = NumTargets
                      THEN pc' = "fetch" /\ i' = 1
                      ELSE pc' = "probe" /\ i' = i + 1
    /\ UNCHANGED << force, dryRun, out, error, response, called >>
    /\ UNCHANGED << files, dirs, files0, dirs0, runs, prevClean >>
    /\ UNCHANGED verVars

\* main: if font_bytes is None: font_bytes = download_font()
DownloadCall ==
    /\ pc = "fetch"
    /\ called' = [called EXCEPT !.fetch = TRUE]
    /\ pc' = "fetching"
    /\ UNCHANGED << force, dryRun, payload, i, out, err, error, response >>
    /\ UNCHANGED << files, dirs, files0, dirs0, runs, prevClean >>
    /\ UNCHANGED verVars

\* download_font: the network answers; the payload is returned or the
\* RuntimeError ends main
Download ==
    /\ pc = "fetching"
    /\ \E resp \in Responses :
         LET r == download_font(resp)
         IN  /\ response' = resp
             /\ payload' = r.payload
             /\ error' = r.error
             /\ pc' = IF r.error = NoError THEN "ensure_call" ELSE "failed"
    /\ UNCHANGED << force, dryRun, i, out, err, called >>
    /\ UNCHANGED << files, dirs, files0, dirs0, runs, prevClean >>
    /\ UNCHANGED verVars

\* main: ensure_targets(font_bytes, force=args.force, dry_run=args.dry_run)
EnsureCall ==
    /\ pc = "ensure_call"
    /\ called' = [called EXCEPT !.ensure = TRUE]
    /\ i' = 1
    /\ pc' = "mkdir"
    /\ UNCHANGED << force, dryRun, payload, out, err, error, response >>
    /\ UNCHANGED << files, dirs, files0, dirs0, runs, prevClean >>
    /\ UNCHANGED verVars

\* ensure_targets: target.parent.mkdir(parents=True, exist_ok=True)
MakeParent ==
    /\ pc = "mkdir"
    /\ dirs' = [dirs EXCEPT ![FONT_TARGETS[i]] = TRUE]
    /\ pc' = "check"
    /\ UNCHANGED << files, files0, dirs0, runs, prevClean >>
    /\ UNCHANGED << force, dryRun, payload, i, out, err, error, response, called >>
    /\ UNCHANGED verVars

\* ensure_targets: the comparison with the existing copy and its one line
CheckExisting ==
    /\ pc = "check"
    /\ LET t == FONT_TARGETS[i]
           f == files[t]
       IN  /\ out' = IF UpToDate(f, force) THEN Append(out, Line("up to date", t))
                     ELSE IF Mismatch(f, force) THEN Append(out, Line("refreshing", t))
                     ELSE out
           /\ err' = IF ReadFails(f, force)
                     THEN Append(err, Warning("could not read", t, 0))
                     ELSE err
           /\ IF UpToDate(f, force)
              THEN i' = i + 1 /\ pc' = AfterTarget(i)
              ELSE i' = i /\ pc' = IF DryRunSkips(dryRun) THEN "would" ELSE "open_tmp"
    /\ UNCHANGED << force, dryRun, payload, error, response, called >>
    /\ UNCHANGED << files, dirs, files0, dirs0, runs, prevClean >>
    /\ UNCHANGED verVars

\* ensure_targets: print "Would write font to"; continue
WouldWrite ==
    /\ pc = "would"
    /\ out' = Append(out, Line("would write", FONT_TARGETS[i]))
    /\ i' = i + 1
    /\ pc' = AfterTarget(i)
    /\ UNCHANGED << force, dryRun, payload, err, error, response, called >>
    /\ UNCHANGED << files, dirs, files0, dirs0, runs, prevClean >>
    /\ UNCHANGED verVars

\* tmp_path.open("wb"): creates or truncates the temp file
OpenTmp ==
    /\ pc = "open_tmp"
    /\ files' = [files EXCEPT ![tmp_path(FONT_TARGETS[i])] = File(<< >>)]
    /\ pc' = IF Len(payload.data) = 0 THEN "replace" ELSE "write"
    /\ UNCHANGED << dirs, force, dryRun, payload, i, out, err, error, response,
                    called, files0, dirs0, runs, prevClean >>
    /\ UNCHANGED verVars

\* handle.write(font_bytes): the bytes reach the temp file one after the other
WriteTmp ==
    /\ pc = "write"
    /\ LET p == tmp_path(FONT_TARGETS[i])
           n == Len(files[p].data)
       IN  /\ files' = [files EXCEPT ![p] =
                           File(Append(files[p].data, payload.data[n + 1]))]
           /\ pc' = IF n + 1 = Len(payload.data) THEN "replace" ELSE "write"
    /\ UNCHANGED << dirs, force, dryRun, payload, i, out, err, error, response,
                    called, files0, dirs0, runs, prevClean >>
    /\ UNCHANGED verVars

\* os.replace(tmp_path, target).  Onto a directory the replace raises
\* IsADirectoryError, which ends main
Replace ==
    /\ pc = "replace"
    /\ LET t == FONT_TARGETS[i]
           p == tmp_path(t)
       IN  IF files[t].isdir
           THEN /\ error' = [kind |-> "IsADirectoryError", expected |-> 0, got |-> 0]
                /\ pc' = "failed"
                /\ files' = files
           ELSE /\ files' = [[files EXCEPT ![t] = files[p]] EXCEPT ![p] = Absent]
                /\ pc' = "wrote"
                /\ error' = error
    /\ UNCHANGED << dirs, force, dryRun, payload, i, out, err, response,
                    called, files0, dirs0, runs, prevClean >>
    /\ UNCHANGED verVars

\* ensure_targets: print "Wrote"
PrintWrote ==
    /\ pc = "wrote"
    /\ out' = Append(out, Line("wrote", FONT_TARGETS[i]))
    /\ i' = i + 1
    /\ pc' = AfterTarget(i)
    /\ UNCHANGED << force, dryRun, payload, err, error, response, called >>
    /\ UNCHANGED << files, dirs, files0, dirs0, runs, prevClean >>
    /\ UNCHANGED verVars

\* main: return 0 after ensure_targets ran through every target
MainReturn ==
    /\ pc = "return"
    /\ pc' = "done"
    /\ UNCHANGED << files, dirs, force, dryRun, payload, i, out, err, error,
                    response, called, files0, dirs0, runs, prevClean >>
    /\ UNCHANGED verVars

\* the process is killed before any statement of the run
Interrupt ==
    /\ pc \in Running
    /\ vpc = "off"
    /\ pc' = "killed"
    /\ UNCHANGED << files, dirs, force, dryRun, payload, i, out, err, error,
                    response, called, files0, dirs0, runs, prevClean >>
    /\ UNCHANGED verVars

----------------------------------------------------------------------------
(* tests/test_fonts.py *)

\* the literal appended by load_required_characters: the 33 upper-case and
\* the 33 lower-case letters of the Russian alphabet, as code points
Alphabet ==
    [k \in 1 .. 6 |-> 1039 + k] \o << 1025 >> \o [k \in 1 .. 26 |-> 1045 + k]
    \o [k \in 1 .. 6 |-> 1071 + k] \o << 1105 >> \o [k \in 1 .. 26 |-> 1077 + k]

\* "CYRILLIC" in unicodedata.name(char, ""): the 444 code points so named
\* in the Unicode data of the interpreter (14.0): Cyrillic and Cyrillic
\* Supplement, Extended-C, U+1D2B, U+1D78, Extended-A, Extended-B without
\* the VERTICAL TILDE U+A673, and the two COMBINING CYRILLIC TITLO halves
IsCyrillic(c) ==
    \/ c \in 1024 .. 1327
    \/ c \in 7296 .. 7304
    \/ c \in { 7467, 7544 }
    \/ c \in 11744 .. 11775
    \/ c \in 42560 .. 42610
    \/ c \in 42612 .. 42655
    \/ c \in { 65070, 65071 }

\* _iter_cyrillic_characters(strings)
iter_cyrillic_characters(strings) ==
    { c \in UNION { { strings[k][n] : n \in 1 .. Len(strings[k]) } :
                    k \in 1 .. Len(strings) } : IsCyrillic(c) }

\* load_required_characters() on the strings extracted from the JSON files
load_required_characters(texts) ==
    iter_cyrillic_characters(Append(texts, Alphabet))

RECURSIVE Sorted(_)
\* sorted(chars): the elements of a set of code points in increasing order
Sorted(S) ==
    IF S = {} THEN << >>
    ELSE LET m == CHOOSE x \in S : \A y \in S : x <= y
         IN  << m >> \o Sorted(S \ { m })

\* TTFont(font_path).getBestCmap() or {}: the code points the file maps
BestCmap(f) == IF sha256_digest(f.data) = FONT_SHA256 THEN cmap ELSE {}

\* mutant: the cmap is asked for the character instead of its code point
verify_font_contains_by_char(best, chars) == Sorted(chars)

\* verify_font_contains: the list "missing"
verify_font_contains(best, chars) == Sorted({ c \in chars : c \notin best })

NoAssertion == [kind |-> "none", target |-> 0, chars |-> << >>]
Assertion(kind, t, chars) == [kind |-> kind, target |-> t, chars |-> chars]

\* test_fonts.main: install_fonts.main([])
VerifierStart ==
    /\ vpc = "start"
    /\ pc = "idle"
    /\ Begin(FALSE, FALSE)
    /\ vpc' = "installing"
    /\ UNCHANGED << cmap, configTexts, required, vi, verr >>

\* install_fonts.main([]) raised: the RuntimeError of download_font or the
\* IsADirectoryError of os.replace ends the verifier
VerifierInstallFailed ==
    /\ vpc = "installing"
    /\ pc = "failed"
    /\ vpc' = "failed"
    /\ verr' = Assertion(IF error.kind = "IsADirectoryError"
                          THEN "IsADirectoryError" ELSE "RuntimeError",
                          0, << >>)
    /\ UNCHANGED << files, dirs, files0, dirs0, runs, prevClean >>
    /\ UNCHANGED runVars
    /\ UNCHANGED << cmap, configTexts, required, vi >>

\* required = load_required_characters(); assert required
VerifierLoad ==
    /\ vpc = "installing"
    /\ pc = "done"
    /\ required' = load_required_characters(configTexts)
    /\ IF required' = {}
       THEN /\ vpc' = "failed"
            /\ verr' = Assertion("Did not detect any Cyrillic characters", 0, << >>)
       ELSE /\ vpc' = "check"
            /\ verr' = verr
    /\ vi' = 1
    /\ UNCHANGED << files, dirs, files0, dirs0, runs, prevClean >>
    /\ UNCHANGED runVars
    /\ UNCHANGED << cmap, configTexts >>

\* one iteration of the loop over install_fonts.FONT_TARGETS
VerifierCheck ==
    /\ vpc = "check"
    /\ vi <= NumTargets
    /\ LET t == FONT_TARGETS[vi]
           f == files[t]
           missing == verify_font_contains(BestCmap(f), required)
       IN  IF ~f.exists
           THEN vpc' = "failed" /\ verr' = Assertion("Expected font at", t, << >>)
           ELSE IF ~f.readable
           THEN vpc' = "failed" /\ verr' = Assertion("OSError", t, << >>)
           ELSE IF sha256_digest(f.data) # FONT_SHA256
           THEN vpc' = "failed" /\ verr' = Assertion("Unexpected font hash", t, << >>)
           ELSE IF missing # << >>
           THEN vpc' = "failed" /\ verr' = Assertion("is missing glyphs for", t, missing)
           ELSE vpc' = "check" /\ verr' = verr
    /\ vi' = vi + 1
    /\ UNCHANGED << files, dirs, files0, dirs0, runs, prevClean >>
    /\ UNCHANGED runVars
    /\ UNCHANGED << cmap, configTexts, required >>

\* print("All fonts include the required Cyrillic glyphs.")
VerifierSuccess ==
    /\ vpc = "check"
    /\ vi > NumTargets
    /\ vpc' = "success"
    /\ UNCHANGED << files, dirs, files0, dirs0, runs, prevClean >>
    /\ UNCHANGED runVars
    /\ UNCHANGED << cmap, configTexts, required, vi, verr >>

----------------------------------------------------------------------------
(* Initial states: any prior state of the targets *)

FileStates == { Absent, Unreadable, Directory } \cup { File(c) : c \in Contents }

InitFiles(states) ==
    /\ files \in [Paths -> states]
    /\ \A p \in Paths \ Targets : ~files[p].exists
    /\ dirs \in [Targets -> BOOLEAN]
    /\ \A t \in Targets : files[t].exists => dirs[t]

InitRun ==
    /\ pc = "idle"
    /\ force = FALSE
    /\ dryRun = FALSE
    /\ payload = None
    /\ i = 1
    /\ out = << >>
    /\ err = << >>
    /\ error = NoError
    /\ response = NetFailure
    /\ called = [probe |-> FALSE, fetch |-> FALSE, ensure |-> FALSE]
    /\ files0 = files
    /\ dirs0 = dirs
    /\ runs = 0
    /\ prevClean = FALSE

Init ==
    /\ InitFiles(FileStates)
    /\ InitRun
    /\ vpc = "off"
    /\ cmap = {}
    /\ configTexts = << >>
    /\ required = {}
    /\ vi = 1
    /\ verr = NoAssertion

Next ==
    \/ MainStart
    \/ CacheLookup
    \/ ProbeStep
    \/ DownloadCall
    \/ Download
    \/ EnsureCall
    \/ MakeParent
    \/ CheckExisting
    \/ WouldWrite
    \/ OpenTmp
    \/ WriteTmp
    \/ Replace
    \/ PrintWrote
    \/ MainReturn
    \/ Interrupt

Spec == Init /\ [][Next]_vars

\* the verifier's inputs: strings of the JSON files (Latin, space, Cyrillic
\* letters inside and outside the alphabet) and fonts lacking some glyphs
TextChoices ==
    { << >>,
      << << 65, 32 >> >>,
      << << 1030, 65 >>, << 1110 >> >>,
      << << 1040, 1041, 1103 >> >>,
      << << 42560, 65 >> >> }

CodePoints ==
    { Alphabet[k] : k \in 1 .. Len(Alphabet) } \cup { 32, 65, 1030, 1110, 42560 }

CmapChoices == { CodePoints \ S : S \in SUBSET { 1030, 1103, 42560 } }

VerifierFileStates == { Absent, Unreadable, Directory, File(<< 1, 1 >>), File(<< 1, 0 >>) }

InitVerifier ==
    /\ InitFiles(VerifierFileStates)
    /\ InitRun
    /\ vpc = "start"
    /\ cmap \in CmapChoices
    /\ configTexts \in TextChoices
    /\ required = {}
    /\ vi = 1
    /\ verr = NoAssertion

\* test_fonts.main runs install_fonts.main([]): never --force, never --dry-run
NextVerifier ==
    \/ VerifierStart
    \/ CacheLookup
    \/ ProbeStep
    \/ DownloadCall
    \/ Download
    \/ EnsureCall
    \/ MakeParent
    \/ CheckExisting
    \/ OpenTmp
    \/ WriteTmp
    \/ Replace
    \/ PrintWrote
    \/ MainReturn
    \/ VerifierInstallFailed
    \/ VerifierLoad
    \/ VerifierCheck
    \/ VerifierSuccess

SpecVerifier == InitVerifier /\ [][NextVerifier]_vars

NextRerun == Next \/ MainAgain

SpecRerun == Init /\ [][NextRerun]_vars

----------------------------------------------------------------------------
(* Properties *)

Range(s) == { s[k] : k \in 1 .. Len(s) }

\* the file is a readable copy with the pinned digest
Valid(f) == f.exists /\ f.readable /\ sha256_digest(f.data) = FONT_SHA256

\* the lines of out about target t, in order
LinesOf(t) == SelectSeq(out, LAMBDA l : l.target = t)

\* C1: integrity gate. Once the fetcher got bytes whose digest is not the
\* pinned one, main has failed with an error naming the expected and the
\* actual digest, ensure_targets was never invoked, and every target (and
\* temp file and directory) is as it was before the run.
C1_IntegrityGate ==
    (called.fetch /\ response.ok /\ sha256_digest(response.body) # FONT_SHA256)
    => /\ pc = "failed"
       /\ error.kind = "does not match expected SHA-256"
       /\ error.expected = FONT_SHA256
       /\ error.got = sha256_digest(response.body)
       /\ ~called.ensure
       /\ out = << >>
       /\ files = files0
       /\ dirs = dirs0

\* C1 witness: a forced run over an existing valid copy and a mismatched copy
\* whose download came back with a wrong digest
C1_Witness ==
    /\ pc = "failed"
    /\ force
    /\ response.ok
    /\ error.got # FONT_SHA256
    /\ Valid(files0[1])
    /\ files0[2].exists /\ files0[2].readable /\ ~Valid(files0[2])

\* the targets a run that writes would write: all of them under --force,
\* otherwise those that are not a readable copy with the pinned digest
NeedsWrite(t) == force \/ ~Valid(files0[t])

\* C2: dry-run safety. With --dry-run no target and no temp file is ever
\* created or modified, and a finished dry run has printed "Would write"
\* for exactly the targets for which a finished run without --dry-run
\* prints "Wrote".
C2_DryRunSafety ==
    /\ dryRun => files = files0
    /\ (dryRun /\ pc = "done")
       => \A t \in Targets : (Line("would write", t) \in Range(out)) <=> NeedsWrite(t)
    /\ (~dryRun /\ pc = "done")
       => \A t \in Targets : (Line("wrote", t) \in Range(out)) <=> NeedsWrite(t)

\* C2 witness: a finished dry run over a missing, a valid and a mismatched
\* target
C2_Witness ==
    /\ dryRun /\ ~force /\ pc = "done"
    /\ ~files0[1].exists
    /\ Valid(files0[2])
    /\ files0[3].exists /\ files0[3].readable /\ ~Valid(files0[3])
    /\ Line("would write", 1) \in Range(out)
    /\ Line("would write", 3) \in Range(out)

\* C5: atomic write. In every state, also after the process was killed at
\* any point, each target is what it was before the run or is the complete
\* payload.
C5_AtomicWrite ==
    \A t \in Targets :
        \/ files[t] = files0[t]
        \/ payload.some /\ files[t] = File(payload.data)

\* C5 witness: the process was killed while the temp file of a target held a
\* proper, non-empty prefix of the payload; the target still has its old,
\* different content
C5_Witness ==
    /\ pc = "killed"
    /\ \E t \in Targets :
         LET tmp == files[tmp_path(t)]
         IN  /\ tmp.exists
             /\ Len(tmp.data) > 0
             /\ Len(tmp.data) < Len(payload.data)
             /\ files0[t].exists
             /\ files0[t].data # payload.data
             /\ files[t] = files0[t]

\* C6: successful run. A run without --dry-run that returned 0 leaves every
\* target existing, with the pinned digest and byte-identical to the payload
\* handed to the distributor.
C6_SuccessPostcondition ==
    (pc = "done" /\ ~dryRun)
    => \A t \in Targets :
           /\ Valid(files[t])
           /\ payload.some
           /\ files[t].data = payload.data

\* C6 witness: a fresh run (no target, no directory) with a matching fetch
\* created all three targets and returned 0
C6_Witness ==
    /\ pc = "done"
    /\ called.fetch
    /\ \A t \in Targets : ~files0[t].exists /\ ~dirs0[t]
    /\ \A t \in Targets : files[t] = File(response.body)

\* C10: a dry run performs no file-system action: files, temp files and the
\* existence of the targets' parent directories stay as before the run.
C10_DryRunLeavesFilesystem ==
    dryRun => (files = files0 /\ dirs = dirs0)

\* C3: idempotence. A run without flags that follows a run without flags
\* that returned 0 never invokes the fetcher, never writes a target or a temp
\* file, never creates a directory, prints no warning, and ends having
\* reported every target "up to date" and nothing else.
C3_Idempotence ==
    (runs >= 2 /\ prevClean /\ ~force /\ ~dryRun)
    => /\ files = files0
       /\ dirs = dirs0
       /\ ~called.fetch
       /\ err = << >>
       /\ pc \notin { "fetch", "fetching", "would", "open_tmp", "write",
                      "replace", "wrote", "failed" }
       /\ \A k \in 1 .. Len(out) : out[k] = Line("up to date", k)
       /\ pc = "done" => Len(out) = NumTargets

\* C3 witness: the second of two flag-less runs has returned 0
C3_Witness ==
    /\ runs = 2 /\ prevClean /\ ~force /\ ~dryRun
    /\ pc = "done"
    /\ out = [t \in Targets |-> Line("up to date", t)]

\* C4 as stated: every run with --force that returns 0 has bypassed the
\* probe, taken its payload from the fetcher and rewritten every target.
C4_ForceRewritesAlways ==
    (force /\ pc = "done")
    => /\ ~called.probe
       /\ called.fetch
       /\ \A t \in Targets : Line("wrote", t) \in Range(out)
       /\ \A t \in Targets : Line("up to date", t) \notin Range(out)

\* C4 amended: in a run with --force the probe is never called, the payload
\* handed to the distributor is the fetched one and no target takes the "up
\* to date" branch; a forced run without --dry-run that returns 0 has
\* rewritten every target with the payload (also the already valid ones),
\* while a forced run with --dry-run rewrites none and prints "Would write"
\* for each.
C4_ForceSemantics ==
    force
    => /\ ~called.probe
       /\ err = << >>
       /\ called.ensure => (called.fetch /\ payload = Some(response.body))
       /\ \A t \in Targets : Line("up to date", t) \notin Range(out)
       /\ (pc = "done" /\ ~dryRun)
          => /\ out = [t \in Targets |-> Line("wrote", t)]
             /\ \A t \in Targets : files[t] = File(payload.data)
       /\ (pc = "done" /\ dryRun)
          => /\ out = [t \in Targets |-> Line("would write", t)]
             /\ files = files0

\* C4 witness: a forced run over three already valid targets returned 0 and
\* wrote all three
C4_Witness ==
    /\ force /\ ~dryRun /\ pc = "done"
    /\ \A t \in Targets : Valid(files0[t])
    /\ \A t \in Targets : Line("wrote", t) \in Range(out)

\* C8 as stated: a finished run of ensure_targets has printed exactly one
\* status line for every target.
C8_OneStatusLine ==
    pc = "done" => \A t \in Targets : Len(LinesOf(t)) = 1

Actions == { "up to date", "would write", "wrote" }

\* C8 amended: a finished run of ensure_targets has printed for every target
\* exactly one line naming the action taken (up to date / would write /
\* wrote), preceded by one more line, "checksum mismatch, refreshing",
\* exactly when the target existed, was readable, had a mismatching digest
\* and --force was not given: such a target has two status lines.
C8_StatusLines ==
    pc = "done"
    => \A t \in Targets :
         LET ls == LinesOf(t)
             refreshed == ~force /\ files0[t].exists /\ files0[t].readable
                          /\ ~Valid(files0[t])
         IN  /\ Len(ls) = IF refreshed THEN 2 ELSE 1
             /\ ls[Len(ls)].kind \in Actions
             /\ refreshed => ls[1].kind = "refreshing"
             /\ ls[Len(ls)].kind = "up to date" <=> (~force /\ Valid(files0[t]))
             /\ ls[Len(ls)].kind = "would write" <=> (dryRun /\ NeedsWrite(t))
             /\ ls[Len(ls)].kind = "wrote" <=> (~dryRun /\ NeedsWrite(t))

\* C8 witness: a finished run printed "refreshing" and then "wrote" for a
\* mismatched target, and one line for a valid one
C8_Witness ==
    /\ pc = "done" /\ ~force /\ ~dryRun
    /\ LinesOf(1) = << Line("refreshing", 1), Line("wrote", 1) >>
    /\ LinesOf(2) = << Line("up to date", 2) >>

\* the targets holding a readable copy with the pinned digest at the start
ValidAtStart == { t \in Targets : Valid(files0[t]) }
FirstValid == CHOOSE t \in ValidAtStart : \A u \in ValidAtStart : t <= u

\* the targets the probe reads before it returns: the existing ones, up to
\* the first valid one
Probed ==
    { t \in Targets : /\ files0[t].exists
                      /\ \A u \in ValidAtStart : t <= u }

\* C9: payload selection. In a run without --force the probe runs; the
\* payload handed to the distributor is the content of the first valid
\* target in FONT_TARGETS order and then the fetcher is not invoked; every
\* existing target before it that is unreadable or mismatched got a warning,
\* in order, and nothing else did; and the fetcher is invoked exactly when
\* --force is given or no target is valid.
C9_PayloadSelection ==
    /\ (runs >= 1 /\ ~force)
       => /\ (pc \notin { "start", "killed" } \/ payload.some) => called.probe
          /\ ValidAtStart # {} => ~called.fetch
          /\ (ValidAtStart # {} /\ (payload.some \/ called.ensure))
             => payload = Some(files0[FirstValid].data)
          /\ (ValidAtStart # {} /\ pc \in { "done", "failed" }) => called.ensure
          /\ LET bad == Sorted(Probed \ ValidAtStart)
             IN  /\ \A k \in 1 .. Len(err) :
                      k <= Len(bad)
                      => /\ err[k].target = bad[k]
                         /\ err[k].kind = IF files0[bad[k]].readable
                                          THEN "unexpected hash"
                                          ELSE "could not read"
                 /\ (payload.some \/ called.fetch) => Len(err) >= Len(bad)
                 /\ called.ensure \/ Len(err) <= Len(bad)
    /\ called.fetch => (force \/ ValidAtStart = {})
    /\ (called.ensure /\ (force \/ ValidAtStart = {})) => called.fetch
    /\ (pc = "failed" /\ error.kind # "IsADirectoryError") => called.fetch
    /\ pc = "done" => (called.fetch <=> (force \/ ValidAtStart = {}))

\* C9 witness: the probe skipped an unreadable and a mismatched target with a
\* warning each, took the third, and the run ended without a fetch
C9_Witness ==
    /\ pc = "done" /\ ~force
    /\ files0[1] = Unreadable
    /\ files0[2].readable /\ ~Valid(files0[2])
    /\ Valid(files0[3])
    /\ payload = Some(files0[3].data)
    /\ ~called.fetch
    /\ Len(err) >= 2

\* C7: verifier. Success is printed only if the required set is not empty
\* and every target exists, has the pinned digest and maps every required
\* code point; every passed target maps every required code point; and a
\* failure for missing glyphs lists exactly the required characters the
\* font does not map, each once, in increasing order.
C7_VerifierSound ==
    /\ vpc = "success"
       => /\ required # {}
          /\ \A t \in Targets : Valid(files[t]) /\ required \subseteq BestCmap(files[t])
    /\ (vpc = "check" /\ vi > 1) => required \subseteq cmap
    /\ (vpc \in { "check", "success" }) => required # {}
    /\ (vpc = "failed" /\ verr.kind = "is missing glyphs for")
       => /\ Range(verr.chars) = required \ cmap
          /\ verr.chars # << >>
          /\ \A k \in 1 .. Len(verr.chars) - 1 : verr.chars[k] < verr.chars[k + 1]

\* C7 witness: the font maps every required character but U+044F, and the
\* verifier failed naming exactly that one
C7_Witness ==
    /\ vpc = "failed"
    /\ { 1040, 1041, 1103 } \subseteq required
    /\ { 1040, 1041 } \subseteq cmap
    /\ verr.kind = "is missing glyphs for"
    /\ verr.chars = << 1103 >>

====
